---- MODULE Spec2Model ----
(***************************************************************************)
(* Model of benchmark.cpp: a cache / memory bandwidth and latency          *)
(* benchmark.  main() parses the command line, allocates two aligned       *)
(* buffers, runs four probes (read, write, copy, latency) on each of four  *)
(* tiers, prints one row per tier and frees the buffers.                   *)
(*                                                                         *)
(* size_t is modelled as an unsigned integer of SizeMod = 2^30 values      *)
(* (TLC's integers are 32 bit); every size_t operation wraps modulo        *)
(* SizeMod exactly where the C++ one wraps modulo 2^64.                    *)
(***************************************************************************)
EXTENDS Integers, Sequences, FiniteSets, TLC

VARIABLES
    argv,       \* argv[1..argc-1], the command line after the program name
    pc,         \* position of main()
    A,          \* struct Args
    parseRes,   \* how parse() ended: "none","ok","help","unknown","missing","throw"
    err,        \* lines written to cerr
    out,        \* lines written to cout
    exit,       \* process status: Running, 0, 1, or 128+signal
    buf1, buf2, \* state of the two allocations: "none","null","live","freed"
    frees,      \* number of free_aligned calls that released a live buffer, per buffer
    totalBytes, \* size of each allocation
    tier,       \* index of the tier being benchmarked (1..4)
    probe,      \* next probe of benchTier (1..4)
    x,          \* Row under construction in benchTier
    rows,       \* Rows returned by benchTier, in call order
    log,        \* one record per probe executed: what it touched and how often it looped
    lt,         \* latency_ns on small ranges: position and locals
    fm          \* printRow on numeric rows: input row and output line

vars == <<argv, pc, A, parseRes, err, out, exit, buf1, buf2, frees, totalBytes,
          tier, probe, x, rows, log, lt, fm>>

mainVars == <<argv, pc, A, parseRes, err, out, exit, buf1, buf2, frees, totalBytes,
              tier, probe, x, rows, log>>

-----------------------------------------------------------------------------
(* Bounds of the model *)

MaxArgs == 3        \* longest command line explored (tokens after argv[0])
MaxSlots == 3       \* largest bytes / stride of the ranges latency_ns is stepped through

-----------------------------------------------------------------------------
(* Machine and program constants *)

SizeMod == 1073741824   \* number of values of size_t in the model (2^30)
PtrSize == 8            \* sizeof(void*), sizeof(double), sizeof(size_t)
Align == 2097152        \* 1ULL << 21
KiB == 1024
PageStep == 4096
CacheLine == 64
QuickIters == 2
QuickMemKB == 65536
WarmDerefs == 2000
MinDerefs == 40000
MaxDerefs == 150000
Running == -1
Junk == -1              \* a buffer word that holds no pointer written by latency_ns
SIGABRT == 134          \* 128 + 6, uncaught exception -> std::terminate -> abort
SIGFPE == 136           \* 128 + 8, integer division by zero
SIGSEGV == 139          \* 128 + 11, access outside the mapped region

Range(f) == {f[i] : i \in DOMAIN f}
Min(a, b) == IF a < b THEN a ELSE b
Max(a, b) == IF a > b THEN a ELSE b

\* size_t arithmetic, wrapping like unsigned arithmetic does
AddSz(a, b) == (a + b) % SizeMod
MulKiB(a) == (a % (SizeMod \div KiB)) * KiB     \* a * 1024ULL

-----------------------------------------------------------------------------
(* Command line tokens *)

ValueFlags == {"--iters", "--stride", "--l1KB", "--l2KB", "--l3KB", "--memKB"}
HelpFlags == {"-h", "--help"}
Numerals == {"0", "1", "10", "200000", "-1", "-8"}
Tokens == ValueFlags \cup HelpFlags \cup {"--quick", "--bogus", "abc"} \cup Numerals

\* the integer a numeral denotes (strtol / strtoull read an optional sign and digits)
Denotes(s) ==
    CASE s = "0" -> 0
      [] s = "1" -> 1
      [] s = "10" -> 10
      [] s = "200000" -> 200000
      [] s = "-1" -> -1
      [] s = "-8" -> -8

\* std::stoi / std::stoull throw std::invalid_argument when no digits can be read
Throws(s) == s \notin Numerals
stoi(s) == Denotes(s)
\* strtoull negates a "-" prefixed value in the unsigned type
stoull(s) == Denotes(s) % SizeMod

Args0 == [iters |-> 3, stride |-> 64, l1KB |-> 32, l2KB |-> 512, l3KB |-> 8192,
          memKB |-> 131072, quick |-> FALSE]

CmdLines == UNION {[1..n -> Tokens] : n \in 0..MaxArgs}

-----------------------------------------------------------------------------
(* parse(), lines 61-103 *)

SetField(a, s, v) ==
    CASE s = "--iters" -> [a EXCEPT !.iters = v]
      [] s = "--stride" -> [a EXCEPT !.stride = v]
      [] s = "--l1KB" -> [a EXCEPT !.l1KB = v]
      [] s = "--l2KB" -> [a EXCEPT !.l2KB = v]
      [] s = "--l3KB" -> [a EXCEPT !.l3KB = v]
      [] s = "--memKB" -> [a EXCEPT !.memKB = v]

\* the argument loop; i indexes av (= argv without the program name)
RECURSIVE ParseLoop(_, _, _)
ParseLoop(av, i, a) ==
    IF i > Len(av) THEN [res |-> "ok", a |-> a, err |-> <<>>]
    ELSE LET s == av[i] IN
        IF s \in ValueFlags THEN
            IF i + 1 > Len(av)      \* need(1): i + 1 >= argc
            THEN [res |-> "missing", a |-> a, err |-> <<"Usage">>]
            ELSE IF Throws(av[i + 1])
            THEN [res |-> "throw", a |-> a, err |-> <<>>]
            ELSE ParseLoop(av, i + 2,
                   SetField(a, s, IF s = "--iters" THEN stoi(av[i + 1])
                                                   ELSE stoull(av[i + 1])))
        ELSE IF s = "--quick" THEN ParseLoop(av, i + 1, [a EXCEPT !.quick = TRUE])
        ELSE IF s \in HelpFlags THEN [res |-> "help", a |-> a, err |-> <<"Usage">>]
        ELSE [res |-> "unknown", a |-> a, err |-> <<"Unknown arg", "Usage">>]

\* lines 91-95
RoundStride(s) ==
    LET s1 == IF s = 0 THEN PtrSize ELSE s IN
    IF s1 % PtrSize # 0
    THEN (AddSz(s1, PtrSize - 1) \div PtrSize) * PtrSize
    ELSE s1

\* ApplyQuick with the cap assigned instead of taken as a minimum
ApplyQuickNoMin(a) ==
    IF a.quick
    THEN [a EXCEPT !.iters = QuickIters, !.memKB = QuickMemKB]
    ELSE a

\* lines 96-100
ApplyQuick(a) ==
    IF a.quick
    THEN [a EXCEPT !.iters = QuickIters, !.memKB = Min(a.memKB, QuickMemKB)]
    ELSE a

parse(av, a) ==
    LET r == ParseLoop(av, 1, a) IN
    IF r.res = "ok"
    THEN [r EXCEPT !.a = ApplyQuick([r.a EXCEPT !.stride = RoundStride(r.a.stride)])]
    ELSE r

-----------------------------------------------------------------------------
(* main(), lines 256-300 *)

NoRow == [r |-> "-", w |-> "-", c |-> "-", l |-> "-"]
NoLat == [at |-> "off"]
NoFmt == [at |-> "off"]
Banner == [label |-> "AIDA-like (quick) Cache & Memory Benchmark", row |-> NoRow]

TierNames == <<"Memory", "L1", "L2", "L3">>
TierKB(a, t) ==
    CASE t = 1 -> a.memKB
      [] t = 2 -> a.l1KB
      [] t = 3 -> a.l2KB
      [] t = 4 -> a.l3KB

Init ==
    /\ argv \in CmdLines
    /\ pc = "parse"
    /\ A = Args0
    /\ parseRes = "none"
    /\ err = <<>>
    /\ out = <<>>
    /\ exit = Running
    /\ buf1 = "none"
    /\ buf2 = "none"
    /\ frees = [b \in {1, 2} |-> 0]
    /\ totalBytes = 0
    /\ tier = 1
    /\ probe = 1
    /\ x = NoRow
    /\ rows = <<>>
    /\ log = <<>>
    /\ lt = NoLat
    /\ fm = NoFmt

\* line 259, parse returned true
ParseOk ==
    /\ pc = "parse"
    /\ LET r == parse(argv, A) IN
        /\ r.res = "ok"
        /\ A' = r.a
        /\ parseRes' = r.res
        /\ err' = err \o r.err
    /\ pc' = "alloc"
    /\ UNCHANGED <<argv, out, exit, buf1, buf2, frees, totalBytes, tier, probe, x,
                   rows, log, lt, fm>>

\* line 259, parse returned false: return 1
ParseFail ==
    /\ pc = "parse"
    /\ LET r == parse(argv, A) IN
        /\ r.res \in {"help", "unknown", "missing"}
        /\ A' = r.a
        /\ parseRes' = r.res
        /\ err' = err \o r.err
    /\ pc' = "done"
    /\ exit' = 1
    /\ UNCHANGED <<argv, out, buf1, buf2, frees, totalBytes, tier, probe, x,
                   rows, log, lt, fm>>

\* lines 75-80: stoi / stoull throw, nothing catches: std::terminate
ParseThrow ==
    /\ pc = "parse"
    /\ LET r == parse(argv, A) IN
        /\ r.res = "throw"
        /\ A' = r.a
        /\ parseRes' = r.res
        /\ err' = err \o r.err
    /\ pc' = "done"
    /\ exit' = SIGABRT
    /\ UNCHANGED <<argv, out, buf1, buf2, frees, totalBytes, tier, probe, x,
                   rows, log, lt, fm>>

\* alloc_aligned, lines 22-27: posix_memalign succeeds or fails
alloc_aligned == {"live", "null"}

MaxKB(a) == Max(Max(a.l3KB, a.memKB), Max(a.l2KB, a.l1KB))

\* lines 261-271
Allocate ==
    /\ pc = "alloc"
    /\ totalBytes' = AddSz(MulKiB(MaxKB(A)), Align)
    /\ buf1' \in alloc_aligned
    /\ buf2' \in alloc_aligned
    /\ IF buf1' = "null" \/ buf2' = "null"
       THEN /\ err' = Append(err, "alloc failed")
            /\ pc' = "done"
            /\ exit' = 1
       ELSE /\ pc' = "touch"
            /\ UNCHANGED <<err, exit>>
    /\ UNCHANGED <<argv, A, parseRes, out, frees, tier, probe, x, rows, log, lt, fm>>

\* lines 274-278: one byte per 4096 in each buffer, last offset < totalBytes
TouchEnd(total) == IF total = 0 THEN 0 ELSE ((total - 1) \div PageStep) * PageStep + 1

WarmTouch ==
    /\ pc = "touch"
    /\ log' = Append(log, [tier |-> "-", probe |-> "touch", bytes |-> totalBytes,
                           end1 |-> TouchEnd(totalBytes), end2 |-> TouchEnd(totalBytes),
                           runs |-> 1, div |-> 1, nodes |-> 0, warm |-> 0, derefs |-> 0])
    /\ pc' = "banner"
    /\ UNCHANGED <<argv, A, parseRes, err, out, exit, buf1, buf2, frees, totalBytes,
                   tier, probe, x, rows, lt, fm>>

\* line 280
PrintBanner ==
    /\ pc = "banner"
    /\ out' = Append(out, Banner)
    /\ pc' = "bench"
    /\ tier' = 1
    /\ probe' = 1
    /\ UNCHANGED <<argv, A, parseRes, err, exit, buf1, buf2, frees, totalBytes,
                   x, rows, log, lt, fm>>

-----------------------------------------------------------------------------
(* Probes, lines 108-204.  A double that results from timing is not a number *)
(* the model knows: a Row field holds the class of the quotient instead.     *)

\* t /= iters; return bytes / t / 1e9  (t is the sum of `iters` clock intervals)
BwClass(bytes, iters) ==
    IF iters >= 1 THEN "timed"              \* bytes / (t / iters) / 1e9
    ELSE IF iters = 0 THEN "nan"            \* t = 0.0 / 0
    ELSE IF bytes = 0 THEN "nan"            \* t = -0.0, 0 / -0.0
    ELSE "-inf"                             \* bytes / -0.0

\* number of times `for (int r = 0; r < iters; ++r)` runs its body
TimedRuns(iters) == Max(iters, 0)

\* one past the last byte touched by `for (i = 0; i < els; i += 8) p[i]`
SweepWarmEnd(els) ==
    IF els = 0 THEN 0
    ELSE (((els - 1) \div (CacheLine \div PtrSize)) * (CacheLine \div PtrSize) + 1) * PtrSize

\* one past the last byte touched by `for (i = 0; i < els; ++i) p[i]`, run `runs` times
SweepEnd(els, runs) == IF runs = 0 THEN 0 ELSE els * PtrSize

\* one past the last byte touched by memcpy(dst, src, bytes)
CopyEnd(bytes) == bytes

\* line 170
Nodes(q) == Max(2, q)

\* Derefs without the upper clamp
DerefsNoCap(nodes) == Max(MinDerefs, nodes * 8)

\* line 193
Derefs(nodes) == Min(MaxDerefs, Max(MinDerefs, nodes * 8))

\* lines 177-184: every slot idx[i] * stride, idx a permutation of 0..nodes-1,
\* is written with one pointer; one past the last byte written
ChainEnd(nodes, stride) == (nodes - 1) * stride + PtrSize

\* bytes / stride: dividing by zero is undefined; builds trap (x86) or yield 0 (AArch64)
DivTraps(b) == b = 0
Quotients(a, b) == IF b = 0 THEN {0} ELSE {a \div b}

\* line 225
TierBytes == MulKiB(TierKB(A, tier))

Entry(name, bytes, e1, e2, runs, div, nodes, warm, derefs) ==
    [tier |-> TierNames[tier], probe |-> name, bytes |-> bytes, end1 |-> e1, end2 |-> e2,
     runs |-> runs, div |-> div, nodes |-> nodes, warm |-> warm, derefs |-> derefs]

\* the process is killed by a signal
Killed(sig) ==
    /\ pc' = "done"
    /\ exit' = sig
    /\ UNCHANGED <<tier, probe, x, rows>>

\* an access past the end of the allocation is undefined: it may fault or go unnoticed
OutOfRegion(e) == e.end1 > totalBytes \/ e.end2 > totalBytes

\* bw_read_gbs, lines 108-130 (called at line 227)
BwRead ==
    /\ pc = "bench" /\ probe = 1
    /\ LET bytes == TierBytes
           els == bytes \div PtrSize
           e == Entry("read", bytes,
                      Max(SweepWarmEnd(els), SweepEnd(els, TimedRuns(A.iters))), 0,
                      TimedRuns(A.iters), A.iters, 0, 0, 0)
       IN /\ log' = Append(log, e)
          /\ \/ /\ x' = [NoRow EXCEPT !.r = BwClass(bytes, A.iters)]
                /\ probe' = 2
                /\ UNCHANGED <<pc, exit, tier, rows>>
             \/ /\ OutOfRegion(e)
                /\ Killed(SIGSEGV)
    /\ UNCHANGED <<argv, A, parseRes, err, out, buf1, buf2, frees, totalBytes, lt, fm>>

\* bw_write_gbs, lines 132-150 (called at line 228)
BwWrite ==
    /\ pc = "bench" /\ probe = 2
    /\ LET bytes == TierBytes
           els == bytes \div PtrSize
           e == Entry("write", bytes,
                      Max(SweepWarmEnd(els), SweepEnd(els, TimedRuns(A.iters))), 0,
                      TimedRuns(A.iters), A.iters, 0, 0, 0)
       IN /\ log' = Append(log, e)
          /\ \/ /\ x' = [x EXCEPT !.w = BwClass(bytes, A.iters)]
                /\ probe' = 3
                /\ UNCHANGED <<pc, exit, tier, rows>>
             \/ /\ OutOfRegion(e)
                /\ Killed(SIGSEGV)
    /\ UNCHANGED <<argv, A, parseRes, err, out, buf1, buf2, frees, totalBytes, lt, fm>>

\* bw_copy_gbs, lines 152-166 (called at line 229 with dst = b2, src = b1)
BwCopy ==
    /\ pc = "bench" /\ probe = 3
    /\ LET bytes == TierBytes
           e == Entry("copy", bytes, CopyEnd(bytes), CopyEnd(bytes),
                      TimedRuns(A.iters), A.iters, 0, 0, 0)
       IN /\ log' = Append(log, e)
          /\ \/ /\ x' = [x EXCEPT !.c = BwClass(bytes, A.iters)]
                /\ probe' = 4
                /\ UNCHANGED <<pc, exit, tier, rows>>
             \/ /\ OutOfRegion(e)
                /\ Killed(SIGSEGV)
    /\ UNCHANGED <<argv, A, parseRes, err, out, buf1, buf2, frees, totalBytes, lt, fm>>

\* latency_ns, lines 168-204 (called at line 230), then benchTier returns the Row
Latency ==
    /\ pc = "bench" /\ probe = 4
    /\ \/ /\ DivTraps(A.stride)
          /\ Killed(SIGFPE)
          /\ UNCHANGED log
       \/ \E q \in Quotients(TierBytes, A.stride) :
            LET nodes == Nodes(q)
                e == Entry("latency", TierBytes, ChainEnd(nodes, A.stride), 0,
                           1, Derefs(nodes), nodes, WarmDerefs, Derefs(nodes))
            IN /\ log' = Append(log, e)
               /\ \/ /\ rows' = Append(rows, [x EXCEPT !.l = "timed"])
                     /\ x' = NoRow
                     /\ probe' = 1
                     /\ IF tier = 4
                        THEN pc' = "print" /\ tier' = 1
                        ELSE pc' = pc /\ tier' = tier + 1
                     /\ UNCHANGED exit
                  \/ /\ OutOfRegion(e)
                     /\ Killed(SIGSEGV)
    /\ UNCHANGED <<argv, A, parseRes, err, out, buf1, buf2, frees, totalBytes, lt, fm>>

\* lines 287-290: printRow(label, row) once per tier; the line is kept as label and Row
PrintRow ==
    /\ pc = "print"
    /\ out' = Append(out, [label |-> TierNames[tier], row |-> rows[tier]])
    /\ IF tier = 4 THEN pc' = "free" /\ tier' = tier
                   ELSE pc' = pc /\ tier' = tier + 1
    /\ UNCHANGED <<argv, A, parseRes, err, exit, buf1, buf2, frees, totalBytes,
                   probe, x, rows, log, lt, fm>>

\* free_aligned, lines 29-32
free_aligned(b) == IF b = "live" THEN "freed" ELSE b

\* lines 292-293
FreeBuffers ==
    /\ pc = "free"
    /\ buf1' = free_aligned(buf1)
    /\ buf2' = free_aligned(buf2)
    /\ frees' = [b \in {1, 2} |->
                   frees[b] + (IF (IF b = 1 THEN buf1 ELSE buf2) = "live" THEN 1 ELSE 0)]
    /\ pc' = "sink"
    /\ UNCHANGED <<argv, A, parseRes, err, out, exit, totalBytes, tier, probe, x,
                   rows, log, lt, fm>>

\* lines 295-299: sink64 holds whatever the sums and the last pointer xor to
SinkCheck ==
    /\ pc = "sink"
    /\ \E hit \in BOOLEAN : err' = IF hit THEN Append(err, "sink") ELSE err
    /\ exit' = 0
    /\ pc' = "done"
    /\ UNCHANGED <<argv, A, parseRes, out, buf1, buf2, frees, totalBytes, tier, probe,
                   x, rows, log, lt, fm>>

Next ==
    \/ ParseOk
    \/ ParseFail
    \/ ParseThrow
    \/ Allocate
    \/ WarmTouch
    \/ PrintBanner
    \/ BwRead
    \/ BwWrite
    \/ BwCopy
    \/ Latency
    \/ PrintRow
    \/ FreeBuffers
    \/ SinkCheck

Spec == Init /\ [][Next]_vars

-----------------------------------------------------------------------------
(* latency_ns, lines 168-204, statement by statement on small ranges.  The buffer is  *)
(* seen as the pointer-sized words at the slot offsets; an offset stands for buf + it. *)

\* main() is not running
Idle ==
    /\ argv = <<>>
    /\ pc = "idle"
    /\ A = Args0
    /\ parseRes = "none"
    /\ err = <<>>
    /\ out = <<>>
    /\ exit = Running
    /\ buf1 = "live"
    /\ buf2 = "live"
    /\ frees = [b \in {1, 2} |-> 0]
    /\ totalBytes = 0
    /\ tier = 1
    /\ probe = 1
    /\ x = NoRow
    /\ rows = <<>>
    /\ log = <<>>

LatStrides == {PtrSize, 2 * PtrSize}

\* what std::shuffle can leave in idx: some permutation of 0..nodes-1
Perms(n) == {f \in [1..n -> 0..(n - 1)] : \A i, j \in 1..n : f[i] = f[j] => i = j}

\* idx[i] of the C++ vector (0-based)
At(idx, i) == idx[i + 1]

\* buf + idx[i] * stride
Slot(idx, i, stride) == At(idx, i) * stride

\* Closing with the last slot pointing at the second slot of the order
ClosingSecond(idx, stride) == Slot(idx, 1, stride)

\* right-hand side of line 182: buf + idx[0] * stride
Closing(idx, stride) == Slot(idx, 0, stride)

\* *p; reading through a pointer that is no slot of the chain is undefined
Deref(mem, p) == IF p \in DOMAIN mem THEN mem[p] ELSE Junk

InitLat ==
    /\ Idle
    /\ fm = NoFmt
    /\ \E k \in 0..MaxSlots, stride \in LatStrides :
        lt = [at |-> "call", bytes |-> k * stride, stride |-> stride, nodes |-> 0,
              idx |-> <<>>, mem |-> <<>>, i |-> 0, p |-> Junk,
              warm |-> 0, timed |-> 0, derefs |-> 0]

\* lines 170-175
LatShuffle ==
    /\ lt.at = "call"
    /\ LET nodes == Nodes(lt.bytes \div lt.stride) IN
       \E idx \in Perms(nodes) :
          lt' = [lt EXCEPT !.at = "link", !.nodes = nodes, !.idx = idx, !.i = 0,
                           !.mem = [a \in {k * lt.stride : k \in 0..(nodes - 1)} |-> Junk]]
    /\ UNCHANGED <<mainVars, fm>>

\* lines 177-181, one iteration
LatLink ==
    /\ lt.at = "link"
    /\ lt.i + 1 < lt.nodes
    /\ lt' = [lt EXCEPT !.mem[Slot(lt.idx, lt.i, lt.stride)] =
                            Slot(lt.idx, lt.i + 1, lt.stride),
                        !.i = lt.i + 1]
    /\ UNCHANGED <<mainVars, fm>>

\* lines 182-184
LatClose ==
    /\ lt.at = "link"
    /\ ~(lt.i + 1 < lt.nodes)
    /\ lt' = [lt EXCEPT !.mem[Slot(lt.idx, lt.nodes - 1, lt.stride)] =
                            Closing(lt.idx, lt.stride),
                        !.p = Slot(lt.idx, 0, lt.stride),
                        !.i = 0, !.at = "warm"]
    /\ UNCHANGED <<mainVars, fm>>

\* lines 187-190, one iteration
LatWarm ==
    /\ lt.at = "warm"
    /\ lt.i < WarmDerefs
    /\ lt' = [lt EXCEPT !.p = Deref(lt.mem, lt.p), !.i = lt.i + 1, !.warm = lt.warm + 1]
    /\ UNCHANGED <<mainVars, fm>>

\* lines 193-194
LatStartTimed ==
    /\ lt.at = "warm"
    /\ ~(lt.i < WarmDerefs)
    /\ lt' = [lt EXCEPT !.derefs = Derefs(lt.nodes), !.i = 0, !.at = "timed"]
    /\ UNCHANGED <<mainVars, fm>>

\* lines 195-198, one iteration
LatTimed ==
    /\ lt.at = "timed"
    /\ lt.i < lt.derefs
    /\ lt' = [lt EXCEPT !.p = Deref(lt.mem, lt.p), !.i = lt.i + 1, !.timed = lt.timed + 1]
    /\ UNCHANGED <<mainVars, fm>>

\* lines 199-203
LatReturn ==
    /\ lt.at = "timed"
    /\ ~(lt.i < lt.derefs)
    /\ lt' = [lt EXCEPT !.at = "done"]
    /\ UNCHANGED <<mainVars, fm>>

NextLat ==
    \/ LatShuffle
    \/ LatLink
    \/ LatClose
    \/ LatWarm
    \/ LatStartTimed
    \/ LatTimed
    \/ LatReturn

SpecLat == InitLat /\ [][NextLat]_vars

-----------------------------------------------------------------------------
(* printRow, lines 235-251.  A Row field is a double in GB/s (bw_*_gbs return     *)
(* bytes / t / 1e9); the model holds it in thousandths, that is as a whole number *)
(* of MB/s.  A printed number is held in hundredths (setprecision(2)).            *)

MaxRate == 3        \* number of sample bandwidths below 1 GB/s besides 950 MB/s

Scale == 1000       \* thousandths per unit of a Row field
\* latencies printRow is given, in hundredths of a nanosecond
Latencies == {125, 8000}

\* bandwidths printRow is given, in MB/s
Rates ==
    {10 * k : k \in 0..MaxRate} \cup {950, 990, 1000, 1500, 999990, 1000000, 1500000}

\* the lambda fmt, lines 237-243: v in thousandths
fmt(v) ==
    LET gb == v >= 1000 * Scale
        vv == IF gb THEN v ELSE v * 1000        \* thousandths of the shown unit
        u == IF gb THEN "GB/s" ELSE "MB/s"
    IN [shown |-> vv \div (Scale \div 100), unit |-> u]

\* lines 245-250
printRow(label, r) ==
    [label |-> label, read |-> fmt(r.r), write |-> fmt(r.w), copy |-> fmt(r.c),
     lat |-> r.l, unit |-> "ns"]

InitFmt ==
    /\ Idle
    /\ lt = NoLat
    /\ \E label \in Range(TierNames), r, w, c \in Rates, l \in Latencies :
        fm = [at |-> "call", label |-> label,
              row |-> [r |-> r, w |-> w, c |-> c, l |-> l], line |-> <<>>]

FmtPrint ==
    /\ fm.at = "call"
    /\ fm' = [fm EXCEPT !.at = "printed", !.line = printRow(fm.label, fm.row)]
    /\ UNCHANGED <<mainVars, lt>>

NextFmt == FmtPrint

SpecFmt == InitFmt /\ [][NextFmt]_vars

-----------------------------------------------------------------------------
(* Properties of the run *)

MaxOf(S) == CHOOSE m \in S : \A k \in S : k <= m

\* the token that follows the last occurrence of flag on the command line
Places(flag) == {i \in 1..(Len(argv) - 1) : argv[i] = flag}
GivenToken(flag) == argv[MaxOf(Places(flag)) + 1]
GivenStride == IF Places("--stride") = {} THEN 64 ELSE stoull(GivenToken("--stride"))
GivenMemKB == IF Places("--memKB") = {} THEN 131072 ELSE stoull(GivenToken("--memKB"))
GivenIters == IF Places("--iters") = {} THEN 3 ELSE stoi(GivenToken("--iters"))

Probed == {i \in 1..Len(log) : log[i].probe # "touch"}
Sweeps == {i \in 1..Len(log) : log[i].probe \in {"read", "write", "copy"}}
Chases == {i \in 1..Len(log) : log[i].probe = "latency"}
Returned == pc = "done" /\ exit \in {0, 1}

\* C1: every probe touches only offsets 0..bytes-1 of its buffers, and every touched
\* offset lies inside the allocation of totalBytes bytes.
C1_ProbesStayInTier ==
    \A i \in Probed :
        /\ log[i].end1 <= log[i].bytes
        /\ log[i].end2 <= log[i].bytes
        /\ log[i].end1 <= totalBytes
        /\ log[i].end2 <= totalBytes

\* C2: when main returns, every buffer that was allocated has been freed exactly once.
C2_FreedOnEveryExit ==
    Returned =>
        /\ buf1 # "live" /\ buf2 # "live"
        /\ (buf1 = "freed") = (frees[1] = 1)
        /\ (buf2 = "freed") = (frees[2] = 1)
        /\ frees[1] <= 1 /\ frees[2] <= 1

\* C3: an unknown flag, a flag without its value or a value that is no number ends the
\* process with status 1 and the usage text on cerr, before any allocation or probe.
C3_ConfigErrorExitsOne ==
    (pc = "done" /\ parseRes \in {"unknown", "missing", "throw"}) =>
        /\ exit = 1
        /\ "Usage" \in Range(err)
        /\ buf1 = "none" /\ buf2 = "none"
        /\ log = <<>>

\* C4: an accepted configuration has iters >= 1, so every bandwidth probe runs its timed
\* loop at least once and divides the time by a positive count.
C4_ItersAtLeastOne ==
    parseRes = "ok" =>
        /\ A.iters >= 1
        /\ \A i \in Sweeps : log[i].runs >= 1 /\ log[i].div >= 1

\* C5: an accepted run whose allocations both succeed benchmarks Memory, L1, L2, L3 in
\* that order, prints the banner and then the four rows in that order, and exits 0.
C5_FullRunExitsZero ==
    (pc = "done" /\ parseRes = "ok" /\ buf1 # "null" /\ buf2 # "null") =>
        /\ exit = 0
        /\ Len(out) = 5
        /\ out[1] = Banner
        /\ \A t \in 1..4 : out[t + 1].label = TierNames[t] /\ out[t + 1].row = rows[t]
        /\ [i \in 1..Len(SelectSeq(log, LAMBDA e : e.probe # "touch")) |->
              <<SelectSeq(log, LAMBDA e : e.probe # "touch")[i].tier,
                SelectSeq(log, LAMBDA e : e.probe # "touch")[i].probe>>]
           = [i \in 1..16 |->
              <<TierNames[((i - 1) \div 4) + 1],
                <<"read", "write", "copy", "latency">>[((i - 1) % 4) + 1]>>]

\* C7: with --quick anywhere on an accepted command line iters is 2 and memKB is the
\* smaller of the given memKB and 65536; without it both are the given values or defaults.
C7_QuickOverrides ==
    parseRes = "ok" =>
        IF "--quick" \in Range(argv)
        THEN /\ A.iters = 2
             /\ A.memKB = (IF GivenMemKB < 65536 THEN GivenMemKB ELSE 65536)
        ELSE /\ A.iters = GivenIters
             /\ A.memKB = GivenMemKB

C7_Witness ==
    /\ parseRes = "ok"
    /\ argv = <<"--memKB", "200000", "--quick">>
    /\ A.memKB = 65536
    /\ A.iters = 2

\* C8: the effective stride is the smallest positive multiple of the pointer size that
\* is >= the given stride; it is never 0.
C8_StrideRoundedUp ==
    parseRes = "ok" =>
        /\ A.stride > 0
        /\ A.stride % 8 = 0
        /\ A.stride >= GivenStride
        /\ (A.stride - 8 < GivenStride \/ A.stride = 8)

\* C10: latency_ns uses nodes = max(2, floor(bytes / stride)), warms up with exactly 2000
\* dereferences and times exactly clamp(8 * nodes, 40000, 150000) dereferences; the counts
\* depend on (bytes, stride) only.
C10_NodesAndDerefs ==
    A.stride >= 1 =>
        /\ \A i \in Chases :
            LET q == log[i].bytes \div A.stride
                n == IF q < 2 THEN 2 ELSE q
            IN /\ log[i].nodes = n
               /\ log[i].warm = 2000
               /\ log[i].derefs =
                    (IF 8 * n < 40000 THEN 40000 ELSE IF 8 * n > 150000 THEN 150000 ELSE 8 * n)
        /\ \A i, j \in Chases :
            log[i].bytes = log[j].bytes =>
                log[i].nodes = log[j].nodes /\ log[i].derefs = log[j].derefs

C10_Witness ==
    /\ \E i \in Chases : log[i].bytes = 1024 /\ A.stride = 64 /\ log[i].nodes = 16
                         /\ log[i].derefs = 40000
    /\ \E i \in Chases : log[i].derefs = 65536
    /\ \E i \in Chases : log[i].derefs = 150000

-----------------------------------------------------------------------------
(* Properties of latency_ns *)

ChainBuilt == lt.at \in {"warm", "timed", "done"}
SlotAddrs == {k * lt.stride : k \in 0..(lt.nodes - 1)}

\* the addresses p takes in k dereferences that start at p
RECURSIVE Follow(_, _, _)
Follow(mem, p, k) == IF k = 0 THEN <<>> ELSE <<p>> \o Follow(mem, Deref(mem, p), k - 1)

\* C9: once built, the chain is one cycle through all nodes slots: nodes dereferences
\* from slot idx[0] visit every slot exactly once and the last one points back to
\* idx[0]; every pointer followed while warming up and timing is the address of a slot.
C9_SingleCycle ==
    ChainBuilt =>
        LET start == lt.idx[1] * lt.stride
            path == Follow(lt.mem, start, lt.nodes)
        IN /\ lt.nodes >= 2
           /\ Range(path) = SlotAddrs
           /\ Cardinality(Range(path)) = lt.nodes
           /\ Deref(lt.mem, path[lt.nodes]) = start
           /\ lt.p \in SlotAddrs

C9_Witness ==
    /\ lt.at = "done"
    /\ lt.nodes = 3
    /\ lt.idx = <<2, 0, 1>>
    /\ lt.warm = 2000
    /\ lt.timed = 40000

-----------------------------------------------------------------------------
(* Properties of printRow *)

\* what the reporter is meant to show for a bandwidth of mbs MB/s
Shown(mbs) ==
    IF mbs >= 1000
    THEN [shown |-> mbs \div 10, unit |-> "GB/s"]       \* mbs / 1000 GB/s, in hundredths
    ELSE [shown |-> mbs * 100, unit |-> "MB/s"]

\* C6: printRow shows a bandwidth in GB/s when it is at least 1000 MB/s and in MB/s
\* otherwise, the number converted to the unit: 950 MB/s as 950.00 MB/s, 1500 MB/s as
\* 1.50 GB/s.
C6_UnitByMagnitude ==
    fm.at = "printed" =>
        /\ fm.line.read = Shown(fm.row.r)
        /\ fm.line.write = Shown(fm.row.w)
        /\ fm.line.copy = Shown(fm.row.c)

====
